---------------------------- MODULE Spec2Model ----------------------------
(***************************************************************************)
(* A model of update_covid.py: the COVID-19 ETL job.                       *)
(*                                                                         *)
(*   main()  =  fetch_covid_data -> transform_data -> setup_git_repo       *)
(*              -> save_and_push_data, all inside one try/except.          *)
(*                                                                         *)
(* transform_data is a pure function of its two arguments and is modelled  *)
(* as an operator; main is modelled as a state machine whose program       *)
(* counter walks the statements of main and of the functions it calls.     *)
(*                                                                         *)
(* Numbers.  The DataFrame columns computed by transform_data are float64  *)
(* columns.  A float is modelled as a record [kind, num, den]: kind "nan"  *)
(* (pandas' missing value), "inf", "ninf", or "num" for the rational       *)
(* num/den in lowest terms.  Rounding of float64 is not modelled: finite   *)
(* results are exact rationals.                                            *)
(*                                                                         *)
(* Inputs.  historical_data is the JSON object returned by the             *)
(* /historical/all endpoint: a mapping from column name ("cases",          *)
(* "deaths") to a mapping from date key ("1/22/20") to a count.  It is     *)
(* modelled as [columns, rows]: the set of column names present and the    *)
(* rows in key (insertion) order, a row being [key, cases, deaths] with    *)
(* key = <<month, day, two-digit year>>.  countries_data is the JSON list  *)
(* of the /countries endpoint; an entry is modelled by its population:     *)
(* Absent (no "population" key), Null (JSON null) or a natural number.     *)
(***************************************************************************)
EXTENDS Integers, Sequences, FiniteSets, TLC

VARIABLES
    pc,                  \* the statement of main() about to execute
    historical_response, \* requests.get(historical_url)     (line 18)
    countries_response,  \* requests.get(countries_url)      (line 19)
    historical_data,     \* main's local, line 103
    countries_data,      \* main's local, line 103
    df_transformed,      \* main's local, line 106: what transform_data returned
    repo,                \* the working tree, the local repository and the remote
    stdout,              \* everything print() wrote, in order
    exc,                 \* the exception in flight, NoExc when none
    calls                \* history: the stages entered so far, with their outcome

vars == <<pc, historical_response, countries_response, historical_data,
          countries_data, df_transformed, repo, stdout, exc, calls>>

-----------------------------------------------------------------------------
(* Bounds of the model. *)

\* dates of a historical input of the transform specification
MaxDates == 3
\* entries of a country snapshot of the transform specification
MaxCountries == 2
\* dates of a historical input of the rolling-window specification
MaxDays == 8
\* dates of a response body in the specification of main
MainDates == 1
\* entries of a country snapshot in the specification of main
MainCountries == 1

\* (cases, deaths) of one date: zero, growth, and a decrease of either counter
RowCounts == {<<0, 0>>, <<2, 1>>, <<1, 3>>}
\* the population of a country entry, when it is a number
Populations == {0, 2}

-----------------------------------------------------------------------------
(* float64 values *)

NaN == [kind |-> "nan", num |-> 0, den |-> 1]
PosInf == [kind |-> "inf", num |-> 0, den |-> 1]
NegInf == [kind |-> "ninf", num |-> 0, den |-> 1]

Abs(n) == IF n < 0 THEN -n ELSE n

RECURSIVE Gcd(_, _)
Gcd(a, b) == IF b = 0 THEN a ELSE Gcd(b, a % b)

\* the finite float n/d, d # 0, in lowest terms with a positive denominator
Ratio(n, d) ==
    LET g == Gcd(Abs(n), Abs(d))
        s == IF d < 0 THEN -1 ELSE 1
    IN  [kind |-> "num", num |-> (s * n) \div g, den |-> (s * d) \div g]

Num(n) == Ratio(n, 1)

IsNaN(x) == x.kind = "nan"
IsFinite(x) == x.kind = "num"
IsInfinite(x) == x.kind \in {"inf", "ninf"}
Sign(x) ==
    CASE x.kind = "inf" -> 1
      [] x.kind = "ninf" -> -1
      [] OTHER -> IF x.num > 0 THEN 1 ELSE IF x.num < 0 THEN -1 ELSE 0
Infinity(sign) == IF sign < 0 THEN NegInf ELSE PosInf

\* a + b
FAdd(a, b) ==
    CASE IsNaN(a) \/ IsNaN(b) -> NaN
      [] IsFinite(a) /\ IsFinite(b) ->
            Ratio(a.num * b.den + b.num * a.den, a.den * b.den)
      [] IsInfinite(a) /\ IsInfinite(b) -> IF a = b THEN a ELSE NaN
      [] IsInfinite(a) -> a
      [] OTHER -> b

\* a / b: a division by zero raises nothing, it yields an infinity, or NaN for 0/0
FDiv(a, b) ==
    CASE IsNaN(a) \/ IsNaN(b) -> NaN
      [] IsFinite(a) /\ IsFinite(b) ->
            IF b.num = 0
            THEN IF a.num = 0 THEN NaN ELSE Infinity(Sign(a))
            ELSE Ratio(a.num * b.den, a.den * b.num)
      [] IsInfinite(a) /\ IsInfinite(b) -> NaN
      [] IsInfinite(a) -> Infinity(Sign(a) * (IF Sign(b) < 0 THEN -1 ELSE 1))
      [] OTHER -> Num(0)

\* a * b
FMul(a, b) ==
    CASE IsNaN(a) \/ IsNaN(b) -> NaN
      [] IsFinite(a) /\ IsFinite(b) -> Ratio(a.num * b.num, a.den * b.den)
      [] OTHER -> IF Sign(a) * Sign(b) = 0 THEN NaN
                  ELSE Infinity(Sign(a) * Sign(b))


-----------------------------------------------------------------------------
(* The inputs of transform_data *)

\* a country entry: no "population" member, a null one, or a number
Absent == [population |-> "absent", value |-> 0]
Null == [population |-> "null", value |-> 0]
Population(n) == [population |-> "number", value |-> n]

\* the key of the n-th day of the series, as the API writes it: 1/22/20 is day 1
DayKey(n) == IF n <= 10 THEN <<1, 21 + n, 20>> ELSE <<2, n - 10, 20>>

\* the JSON object {}: no "cases" and no "deaths" member
EmptyObject == [columns |-> {}, rows |-> <<>>]

\* {"cases": {key: n, ...}, "deaths": {key: n, ...}} with the keys in the order of rows
Historical(rows) == [columns |-> {"cases", "deaths"}, rows |-> rows]

Row(key, counts) == [key |-> key, cases |-> counts[1], deaths |-> counts[2]]

DistinctKeys(rows) ==
    \A i, j \in 1..Len(rows) : rows[i].key = rows[j].key => i = j

\* every historical input of at most n dates, the keys in any order
HistoricalInputs(n) ==
    LET Keys == {DayKey(d) : d \in 1..n}
        Rows == {Row(k, c) : k \in Keys, c \in RowCounts}
        Seqs == UNION {[1..len -> Rows] : len \in 0..n}
    IN  {EmptyObject} \cup {Historical(s) : s \in {t \in Seqs : DistinctKeys(t)}}

\* every historical input of at most n dates, the keys in the order of the API
ChronologicalInputs(n) ==
    {Historical([i \in 1..Len(c) |-> Row(DayKey(i), c[i])]) :
        c \in UNION {[1..len -> RowCounts] : len \in 0..n}}

\* every country snapshot of at most n entries
CountryInputs(n) ==
    UNION {[1..len -> {Absent, Null} \cup {Population(n0) : n0 \in Populations}] :
                len \in 0..n}

-----------------------------------------------------------------------------
(* pandas *)

\* rolling(window=7): the window, and min_periods, which defaults to the window
Window == 7

\* pd.to_datetime of a key "m/d/yy": the calendar date <<year, month, day>>;
\* a two-digit year below 69 is of this century
to_datetime(key) ==
    <<IF key[3] < 69 THEN 2000 + key[3] ELSE 1900 + key[3], key[1], key[2]>>

\* the order of two calendar dates
Before(a, b) ==
    \/ a[1] < b[1]
    \/ a[1] = b[1] /\ a[2] < b[2]
    \/ a[1] = b[1] /\ a[2] = b[2] /\ a[3] < b[3]

\* pd.DataFrame(historical_data).index: the keys in insertion order; the
\* constructor does not sort them
DataFrameIndex(data) == [i \in 1..Len(data.rows) |-> data.rows[i].key]

\* df[name] of the historical frame, an int64 column
Column(data, name) ==
    [i \in 1..Len(data.rows) |->
        IF name = "cases" THEN data.rows[i].cases ELSE data.rows[i].deaths]

\* Series.shift(1): row i holds the value of row i-1, the first row NaN
shift(col) == [i \in 1..Len(col) |-> IF i = 1 THEN NaN ELSE Num(col[i - 1])]

\* a diff that fills the first row with zero instead of NaN
diff_fill_zero(col) ==
    [i \in 1..Len(col) |-> IF i = 1 THEN Num(0) ELSE Num(col[i] - col[i - 1])]

\* Series.diff(), lines 38-39: row i minus row i-1, the first row NaN
diff(col) ==
    [i \in 1..Len(col) |-> IF i = 1 THEN NaN ELSE Num(col[i] - col[i - 1])]

RECURSIVE SumValid(_, _, _)
\* the sum of the values of col[lo..hi] that are not NaN
SumValid(col, lo, hi) ==
    IF lo > hi THEN Num(0)
    ELSE IF IsNaN(col[hi]) THEN SumValid(col, lo, hi - 1)
    ELSE FAdd(SumValid(col, lo, hi - 1), col[hi])

\* Series.rolling(window, min_periods).mean(): at row i the mean of the
\* observations of rows i-window+1..i that are not NaN, NaN when there are fewer
\* than min_periods of them
rolling_mean_periods(col, window, min_periods) ==
    [i \in 1..Len(col) |->
        LET lo == IF i - window + 1 < 1 THEN 1 ELSE i - window + 1
            nobs == Cardinality({j \in lo..i : ~IsNaN(col[j])})
        IN  IF nobs >= min_periods /\ nobs > 0
            THEN FDiv(SumValid(col, lo, i), Num(nobs))
            ELSE NaN]

\* a rolling mean that accepts a partial window (min_periods=1)
rolling_mean_partial(col) == rolling_mean_periods(col, Window, 1)

\* Series.rolling(window=7).mean(), lines 43-44
rolling_mean(col) == rolling_mean_periods(col, Window, Window)

\* whether df_countries has a "population" column: some entry has the key
HasPopulation(countries) ==
    \E i \in 1..Len(countries) : countries[i] # Absent

RECURSIVE SeriesSum(_, _)
\* Series.sum() of the first n entries: missing values (None, NaN) are skipped
SeriesSum(countries, n) ==
    IF n = 0 THEN 0
    ELSE SeriesSum(countries, n - 1)
         + (IF countries[n] \in {Absent, Null} THEN 0 ELSE countries[n].value)

-----------------------------------------------------------------------------
(* transform_data, lines 26-55 *)

Growth == 100
Million == 1000000

\* line 40: new_cases / cases.shift(1) * 100, row by row
growth_rate(new_cases, previous) ==
    [i \in 1..Len(new_cases) |->
        FMul(FDiv(new_cases[i], previous[i]), Num(Growth))]

\* line 47
total_population(countries) == SeriesSum(countries, Len(countries))

\* lines 48, 49
per_million(col, population) ==
    [i \in 1..Len(col) |-> FMul(FDiv(Num(col[i]), Num(population)), Num(Million))]

NoFault == "none"

\* what a call of transform_data does: the exception it raises, or else the
\* frame it returns (one record per row, in index order) and its total_population
transform_data(historical, countries) ==
    IF "cases" \notin historical.columns
    THEN [raised |-> "KeyError: 'cases'", population |-> 0, rows |-> <<>>]
    ELSE IF "deaths" \notin historical.columns
    THEN [raised |-> "KeyError: 'deaths'", population |-> 0, rows |-> <<>>]
    ELSE IF ~HasPopulation(countries)
    THEN [raised |-> "KeyError: 'population'", population |-> 0, rows |-> <<>>]
    ELSE
    LET index == DataFrameIndex(historical)
        cases == Column(historical, "cases")
        deaths == Column(historical, "deaths")
        new_cases == diff(cases)
        new_deaths == diff(deaths)
        growth == growth_rate(new_cases, shift(cases))
        cases_ma7 == rolling_mean(new_cases)
        deaths_ma7 == rolling_mean(new_deaths)
        population == total_population(countries)
        cases_pm == per_million(cases, population)
        deaths_pm == per_million(deaths, population)
    IN  [raised |-> NoFault,
         population |-> population,
         rows |-> [i \in 1..Len(index) |->
            [date |-> to_datetime(index[i]),
             cases |-> cases[i],
             deaths |-> deaths[i],
             new_cases |-> new_cases[i],
             new_deaths |-> new_deaths[i],
             growth_rate |-> growth[i],
             cases_ma7 |-> cases_ma7[i],
             deaths_ma7 |-> deaths_ma7[i],
             cases_per_million |-> cases_pm[i],
             deaths_per_million |-> deaths_pm[i]]]]

-----------------------------------------------------------------------------
(* main, lines 100-117, and the functions it calls *)

\* requests' status code of a successful response, line 21
OK == 200
\* a status code other than 200
ServerError == 500

NoExc == "none"

\* a local variable of main that no statement has assigned yet
Unassigned == [columns |-> {}, rows |-> <<>>]
NoResponse == [status |-> 0, historical |-> Unassigned, countries |-> <<>>]
NotCalled == [raised |-> "not called", population |-> 0, rows |-> <<>>]

\* one print(): the text and, for an f-string, the value it interpolates
Line(text, arg) == [text |-> text, arg |-> arg]

MsgFetch == Line("Obteniendo datos de COVID-19...", "")
MsgTransform == Line("Transformando datos...", "")
MsgSetup == Line("Configurando repositorio Git...", "")
MsgSave == Line("Guardando y subiendo datos...", "")
MsgSaved == Line("Datos guardados en ", "data/raw/covid_historical_data.parquet")
MsgPushed == Line("Datos subidos exitosamente a GitHub", "")
MsgSuccess == Line("Proceso completado exitosamente", "")
MsgError(e) == Line("Error en el proceso: ", e)

Call(stage, outcome) == [stage |-> stage, outcome |-> outcome]

\* the bodies the two endpoints may answer with
MainHistoricals == HistoricalInputs(MainDates)
MainSnapshots == CountryInputs(MainCountries)

Init ==
    /\ pc = "fetch"
    /\ historical_response = NoResponse
    /\ countries_response = NoResponse
    /\ historical_data = Unassigned
    /\ countries_data = <<>>
    /\ df_transformed = NotCalled
    /\ repo = [handle |-> "none", file |-> FALSE, commit |-> FALSE, remote |-> FALSE]
    /\ stdout = <<>>
    /\ exc = NoExc
    /\ calls = <<>>

\* an exception leaves the try block for the except clause, line 116
Raise(e, stage) ==
    /\ exc' = e
    /\ pc' = "except"
    /\ calls' = Append(calls, Call(stage, "raised"))

\* fetch_covid_data, lines 11-18: the first request
GetHistorical ==
    /\ pc = "fetch"
    /\ stdout' = Append(stdout, MsgFetch)
    /\ \/ /\ Raise("ConnectionError", "get_historical")
          /\ UNCHANGED historical_response
       \/ /\ \E body \in MainHistoricals :
                historical_response' =
                    [status |-> OK, historical |-> body, countries |-> <<>>]
          /\ pc' = "get_countries"
          /\ calls' = Append(calls, Call("get_historical", "ok"))
          /\ exc' = exc
       \/ /\ historical_response' =
                [status |-> ServerError, historical |-> Unassigned, countries |-> <<>>]
          /\ pc' = "get_countries"
          /\ calls' = Append(calls, Call("get_historical", "error"))
          /\ exc' = exc
    /\ UNCHANGED <<countries_response, historical_data, countries_data,
                   df_transformed, repo>>

\* fetch_covid_data, line 19: the second request, sent whatever the first
\* response's status was
GetCountries ==
    /\ pc = "get_countries"
    /\ \/ /\ Raise("ConnectionError", "get_countries")
          /\ UNCHANGED countries_response
       \/ /\ \E body \in MainSnapshots :
                countries_response' =
                    [status |-> OK, historical |-> Unassigned, countries |-> body]
          /\ pc' = "check"
          /\ calls' = Append(calls, Call("get_countries", "ok"))
          /\ exc' = exc
       \/ /\ countries_response' =
                [status |-> ServerError, historical |-> Unassigned, countries |-> <<>>]
          /\ pc' = "check"
          /\ calls' = Append(calls, Call("get_countries", "error"))
          /\ exc' = exc
    /\ UNCHANGED <<historical_response, historical_data, countries_data,
                   df_transformed, repo, stdout>>

\* a status check that raises only when both responses failed
CheckStatusBoth ==
    /\ pc = "check"
    /\ IF historical_response.status # OK /\ countries_response.status # OK
       THEN /\ exc' = "Error al obtener datos de la API"
            /\ pc' = "except"
            /\ UNCHANGED <<historical_data, countries_data>>
       ELSE /\ historical_data' = historical_response.historical
            /\ countries_data' = countries_response.countries
            /\ pc' = "transform"
            /\ exc' = exc
    /\ UNCHANGED <<historical_response, countries_response, df_transformed,
                   repo, stdout, calls>>

\* fetch_covid_data, lines 21-24, and the assignment of line 103
CheckStatus ==
    /\ pc = "check"
    /\ IF historical_response.status # OK \/ countries_response.status # OK
       THEN /\ exc' = "Error al obtener datos de la API"
            /\ pc' = "except"
            /\ UNCHANGED <<historical_data, countries_data>>
       ELSE /\ historical_data' = historical_response.historical
            /\ countries_data' = countries_response.countries
            /\ pc' = "transform"
            /\ exc' = exc
    /\ UNCHANGED <<historical_response, countries_response, df_transformed,
                   repo, stdout, calls>>

\* line 106: the call of transform_data.  df_transformed records the call's
\* result: the exception raised, or the frame returned together with the
\* callee's total_population
TransformData ==
    /\ pc = "transform"
    /\ stdout' = Append(stdout, MsgTransform)
    /\ df_transformed' = transform_data(historical_data, countries_data)
    /\ IF df_transformed'.raised # NoFault
       THEN Raise(df_transformed'.raised, "transform_data")
       ELSE /\ pc' = "setup"
            /\ calls' = Append(calls, Call("transform_data", "ok"))
            /\ exc' = exc
    /\ UNCHANGED <<historical_response, countries_response, historical_data,
                   countries_data, repo>>

\* setup_git_repo, lines 57-76, called at line 109: Repo('.') opens the
\* repository, or raises and the bare except initialises one; creating the
\* remote or writing the configuration may raise
SetupGitRepo ==
    /\ pc = "setup"
    /\ stdout' = Append(stdout, MsgSetup)
    /\ \/ /\ \E h \in {"opened", "initialized"} :
                repo' = [repo EXCEPT !.handle = h]
          /\ pc' = "save"
          /\ calls' = Append(calls, Call("setup_git_repo", "ok"))
          /\ exc' = exc
       \/ /\ Raise("GitCommandError", "setup_git_repo")
          /\ UNCHANGED repo
    /\ UNCHANGED <<historical_response, countries_response, historical_data,
                   countries_data, df_transformed>>

\* save_and_push_data, lines 80-88: the directory and the parquet file
WriteParquet ==
    /\ pc = "save"
    /\ \/ /\ repo' = [repo EXCEPT !.file = TRUE]
          /\ stdout' = stdout \o <<MsgSave, MsgSaved>>
          /\ pc' = "commit"
          /\ calls' = Append(calls, Call("to_parquet", "ok"))
          /\ exc' = exc
       \/ /\ Raise("OSError", "to_parquet")
          /\ stdout' = Append(stdout, MsgSave)
          /\ UNCHANGED repo
    /\ UNCHANGED <<historical_response, countries_response, historical_data,
                   countries_data, df_transformed>>

\* save_and_push_data, lines 91-93: stage the file and commit
CommitFile ==
    /\ pc = "commit"
    /\ \/ /\ repo' = [repo EXCEPT !.commit = TRUE]
          /\ pc' = "push"
          /\ calls' = Append(calls, Call("commit", "ok"))
          /\ exc' = exc
       \/ /\ Raise("GitCommandError", "commit")
          /\ UNCHANGED repo
    /\ UNCHANGED <<historical_response, countries_response, historical_data,
                   countries_data, df_transformed, stdout>>

\* save_and_push_data, lines 96-98.  Remote.push() raises when git cannot run
\* the push at all; a push the remote rejects is reported in the flags of the
\* PushInfo list it returns, which line 97 discards
PushOrigin ==
    /\ pc = "push"
    /\ \/ /\ repo' = [repo EXCEPT !.remote = TRUE]
          /\ stdout' = Append(stdout, MsgPushed)
          /\ pc' = "report"
          /\ calls' = Append(calls, Call("push", "ok"))
          /\ exc' = exc
       \/ /\ stdout' = Append(stdout, MsgPushed)
          /\ pc' = "report"
          /\ calls' = Append(calls, Call("push", "rejected"))
          /\ exc' = exc
          /\ UNCHANGED repo
       \/ /\ Raise("GitCommandError", "push")
          /\ UNCHANGED <<repo, stdout>>
    /\ UNCHANGED <<historical_response, countries_response, historical_data,
                   countries_data, df_transformed>>

\* line 114
ReportSuccess ==
    /\ pc = "report"
    /\ stdout' = Append(stdout, MsgSuccess)
    /\ pc' = "done"
    /\ UNCHANGED <<historical_response, countries_response, historical_data,
                   countries_data, df_transformed, repo, exc, calls>>

\* lines 116-117: the except clause prints the exception and main returns
HandleException ==
    /\ pc = "except"
    /\ stdout' = Append(stdout, MsgError(exc))
    /\ exc' = NoExc
    /\ pc' = "done"
    /\ UNCHANGED <<historical_response, countries_response, historical_data,
                   countries_data, df_transformed, repo, calls>>

Next ==
    \/ GetHistorical
    \/ GetCountries
    \/ CheckStatus
    \/ TransformData
    \/ SetupGitRepo
    \/ WriteParquet
    \/ CommitFile
    \/ PushOrigin
    \/ ReportSuccess
    \/ HandleException

\* one run of main
Spec == Init /\ [][Next]_vars

-----------------------------------------------------------------------------
(* transform_data alone: main at line 106, both endpoints having answered *)

Fetched(historical, countries) ==
    /\ pc = "transform"
    /\ historical_response =
            [status |-> OK, historical |-> historical, countries |-> <<>>]
    /\ countries_response =
            [status |-> OK, historical |-> Unassigned, countries |-> countries]
    /\ historical_data = historical
    /\ countries_data = countries
    /\ df_transformed = NotCalled
    /\ repo = [handle |-> "none", file |-> FALSE, commit |-> FALSE, remote |-> FALSE]
    /\ stdout = <<MsgFetch>>
    /\ exc = NoExc
    /\ calls = <<Call("get_historical", "ok"), Call("get_countries", "ok")>>

\* any historical input of at most MaxDates dates, the keys in any order, and
\* any country snapshot of at most MaxCountries entries
InitTransform ==
    \E h \in HistoricalInputs(MaxDates), c \in CountryInputs(MaxCountries) :
        Fetched(h, c)

SpecTransform == InitTransform /\ [][TransformData]_vars

\* a series of at most MaxDays dates in the order of the API, and a country
\* snapshot of one entry that has a population
InitRolling ==
    \E h \in ChronologicalInputs(MaxDays), n \in Populations :
        Fetched(h, <<Population(n)>>)

SpecRolling == InitRolling /\ [][TransformData]_vars

-----------------------------------------------------------------------------
(* Properties of transform_data, read off the state after line 106 *)

\* transform_data was called and returned a frame
Returned == df_transformed.raised = NoFault
\* transform_data was called
Called == df_transformed # NotCalled
\* the records of the frame it returned
Out == df_transformed.rows
\* the rows it was given
In == historical_data.rows

\* the historical input has its two columns and the snapshot a population column
WellFormed ==
    /\ {"cases", "deaths"} \subseteq historical_data.columns
    /\ \E i \in 1..Len(countries_data) : countries_data[i].population # "absent"

Undefined(x) == x.kind = "nan"
Defined(x) == x.kind # "nan"

\* C1: for a historical input with N distinct dates, given in any key order,
\* transform_data returns exactly N records whose dates are unique and
\* strictly ascending.
C1_SortedOutput ==
    Returned =>
        /\ Len(Out) = Cardinality({to_datetime(In[i].key) : i \in 1..Len(In)})
        /\ \A i, j \in 1..Len(Out) : i < j => Before(Out[i].date, Out[j].date)

RECURSIVE SumOfDeltas(_, _, _)
\* the sum of the integers col[lo..hi]
SumOfDeltas(col, lo, hi) ==
    IF lo > hi THEN 0 ELSE col[hi].num + SumOfDeltas(col, lo, hi - 1)

\* avg is the arithmetic mean of the seven values col[i-6..i]
IsMeanOfSeven(avg, col, i) ==
    /\ avg.kind = "num"
    /\ \A j \in (i - 6)..i : col[j].kind = "num" /\ col[j].den = 1
    /\ avg.num * 7 = avg.den * SumOfDeltas(col, i - 6, i)

\* C2: for every output row of 0-based index i, cases_ma7[i] is defined if and
\* only if i >= 7, and then it is the arithmetic mean of new_cases[i-6..i];
\* the same for deaths_ma7 over new_deaths.  (Row r of Out has index r - 1.)
C2_MovingAverageWindow ==
    Returned =>
        \A r \in 1..Len(Out) :
            /\ Defined(Out[r].cases_ma7) <=> r - 1 >= 7
            /\ Defined(Out[r].deaths_ma7) <=> r - 1 >= 7
            /\ r - 1 >= 7 =>
                /\ IsMeanOfSeven(Out[r].cases_ma7,
                                 [j \in 1..Len(Out) |-> Out[j].new_cases], r)
                /\ IsMeanOfSeven(Out[r].deaths_ma7,
                                 [j \in 1..Len(Out) |-> Out[j].new_deaths], r)

\* a frame of eight rows or more whose first moving average is not an integer
C2_Witness ==
    /\ Returned
    /\ Len(Out) >= 8
    /\ Out[8].cases_ma7.kind = "num"
    /\ Out[8].cases_ma7.den = 7
    /\ Out[8].deaths_ma7.kind = "num"
    /\ Out[7].cases_ma7.kind = "nan"

\* C3: for every row i > 0 with cases[i-1] = 0, growth_rate[i] is undefined,
\* never infinite, whatever cases[i] is.
C3_GrowthRateZeroGuard ==
    Returned =>
        \A r \in 2..Len(Out) :
            Out[r - 1].cases = 0 => Undefined(Out[r].growth_rate)

\* no entry of the snapshot has a population other than zero
ZeroTotalPopulation ==
    \A i \in 1..Len(countries_data) :
        countries_data[i].population = "number" => countries_data[i].value = 0

\* C4: when total_population is 0, transform_data completes without a fault
\* and cases_per_million and deaths_per_million are undefined for every row.
C4_ZeroPopulationUndefined ==
    (Called /\ WellFormed /\ ZeroTotalPopulation) =>
        /\ Returned
        /\ \A r \in 1..Len(Out) :
            /\ Undefined(Out[r].cases_per_million)
            /\ Undefined(Out[r].deaths_per_million)

\* C5: when the historical input holds no date at all, transform_data returns
\* an empty sequence of records and raises no fault.
C5_EmptyHistoricalEmptyOutput ==
    (Called /\ Len(In) = 0
        /\ \E i \in 1..Len(countries_data) : countries_data[i].population # "absent") =>
        /\ Returned
        /\ Len(Out) = 0
        /\ exc = NoExc

\* the populations of the snapshot that are numbers, by position
NonNull == {i \in 1..Len(countries_data) : countries_data[i].population = "number"}

RECURSIVE SumOver(_)
\* the sum of the populations at the positions of S
SumOver(S) ==
    IF S = {} THEN 0
    ELSE LET i == CHOOSE x \in S : TRUE
         IN  countries_data[i].value + SumOver(S \ {i})

\* C6: for a country snapshot of zero or more entries, total_population is the
\* sum of the non-null populations; absent and null populations contribute
\* nothing and cause no error, so a snapshot with no entries or with no
\* population values gives 0 and no fault.
C6_TotalPopulation ==
    (Called /\ {"cases", "deaths"} \subseteq historical_data.columns) =>
        /\ Returned
        /\ df_transformed.population = SumOver(NonNull)

\* row q holds the date that chronologically precedes the date of row r
Precedes(q, r) ==
    /\ Before(Out[q].date, Out[r].date)
    /\ \A k \in 1..Len(Out) :
        Before(Out[k].date, Out[r].date) =>
            k = q \/ Before(Out[k].date, Out[q].date)

\* C7: for every output row i > 0, new_cases[i] = cases[i] - cases[i-1] and
\* new_deaths[i] = deaths[i] - deaths[i-1] exactly, i-1 being the
\* chronologically preceding date; negative deltas are kept.
C7_DeltaFromPrecedingDate ==
    Returned =>
        \A r \in 2..Len(Out) :
            /\ Precedes(r - 1, r)
            /\ Out[r].new_cases.kind = "num"
            /\ Out[r].new_cases.den = 1
            /\ Out[r].new_cases.num = Out[r].cases - Out[r - 1].cases
            /\ Out[r].new_deaths.kind = "num"
            /\ Out[r].new_deaths.den = 1
            /\ Out[r].new_deaths.num = Out[r].deaths - Out[r - 1].deaths

FirstRowDeltasUndefined ==
    /\ Undefined(Out[1].new_cases)
    /\ Undefined(Out[1].new_deaths)
    /\ Undefined(Out[1].growth_rate)
    /\ Undefined(Out[1].cases_ma7)
    /\ Undefined(Out[1].deaths_ma7)

\* C8 as stated: for any non-empty historical input the first output record
\* has new_cases, new_deaths, growth_rate, cases_ma7 and deaths_ma7 undefined,
\* and its cases_per_million and deaths_per_million defined.
C8_FirstRecordAsStated ==
    (Returned /\ Len(Out) >= 1) =>
        /\ FirstRowDeltasUndefined
        /\ Defined(Out[1].cases_per_million)
        /\ Defined(Out[1].deaths_per_million)

\* C8 amended: for any non-empty historical input the first output record has
\* new_cases, new_deaths, growth_rate, cases_ma7 and deaths_ma7 undefined, and
\* its cases_per_million and deaths_per_million are finite numbers provided
\* total_population is not zero.
C8_FirstRecord ==
    (Returned /\ Len(Out) >= 1) =>
        /\ FirstRowDeltasUndefined
        /\ df_transformed.population # 0 =>
            /\ Out[1].cases_per_million.kind = "num"
            /\ Out[1].deaths_per_million.kind = "num"

\* a first record with counts other than zero, over a population other than zero
C8_Witness ==
    /\ Returned
    /\ Len(Out) >= 2
    /\ Out[1].cases # 0
    /\ Out[1].deaths # 0
    /\ df_transformed.population # 0
    /\ Out[1].cases_per_million.kind = "num"

-----------------------------------------------------------------------------
(* Properties of main *)

StageRank(stage) ==
    CASE stage = "get_historical" -> 1
      [] stage = "get_countries" -> 2
      [] stage = "transform_data" -> 3
      [] stage = "setup_git_repo" -> 4
      [] stage = "to_parquet" -> 5
      [] stage = "commit" -> 6
      [] stage = "push" -> 7

\* the stage succeeded before position n of the history
SucceededBefore(stage, n) == \E i \in 1..(n - 1) : calls[i] = Call(stage, "ok")

\* C9: in every run of main the stages execute strictly forward and each at
\* most once: the transform only after both fetches succeeded, the file write
\* only after the transform succeeded, the commit only after the file was
\* written, the push only after the commit succeeded; after the first failure
\* no later stage runs and no stage is retried.  (The two requests of lines 18
\* and 19 are both of the fetch stage: the second is sent even when the first
\* was answered with an error status.)
C9_StagesForwardOnce ==
    /\ \A i, j \in 1..Len(calls) :
        i < j => StageRank(calls[i].stage) < StageRank(calls[j].stage)
    /\ \A n \in 1..Len(calls) :
        /\ calls[n].stage = "transform_data" =>
            SucceededBefore("get_historical", n) /\ SucceededBefore("get_countries", n)
        /\ calls[n].stage = "setup_git_repo" => SucceededBefore("transform_data", n)
        /\ calls[n].stage = "to_parquet" =>
            SucceededBefore("transform_data", n) /\ SucceededBefore("setup_git_repo", n)
        /\ calls[n].stage = "commit" => SucceededBefore("to_parquet", n)
        /\ calls[n].stage = "push" => SucceededBefore("commit", n)
    /\ \A i, j \in 1..Len(calls) :
        (i < j /\ calls[i].outcome # "ok") => StageRank(calls[j].stage) <= 2
    /\ Called => historical_response.status = OK /\ countries_response.status = OK
    /\ repo.file => Returned
    /\ repo.commit => repo.file
    /\ repo.remote => repo.commit

\* a run that went through every stage
C9_Witness ==
    /\ pc = "done"
    /\ Len(calls) = 7
    /\ calls[7].stage = "push"
    /\ repo.remote

Count(line) == Cardinality({i \in 1..Len(stdout) : stdout[i].text = line})

\* fetch, transform, repository setup, file write, commit and push all succeeded
AllSucceeded ==
    /\ historical_response.status = OK
    /\ countries_response.status = OK
    /\ Returned
    /\ repo.handle # "none"
    /\ repo.file
    /\ repo.commit
    /\ repo.remote

\* C10: every run of main ends having reported exactly one terminal outcome:
\* the success message if and only if fetch, transform, repository setup, file
\* write, commit and push all succeeded, and otherwise exactly one error
\* message; no failure escapes main.
C10_SingleTerminalOutcome ==
    pc = "done" =>
        /\ Count(MsgSuccess.text) + Count("Error en el proceso: ") = 1
        /\ Count(MsgSuccess.text) = 1 <=> AllSucceeded
        /\ exc = NoExc

=============================================================================
